---- MODULE Spec2Model ----
(***************************************************************************)
(* Model of the npm documentation service: CacheService (a SQLite table    *)
(* keyed by package name), NpmDocService (the cache-backed fetch           *)
(* orchestrator) and its registry client fetchFromNpmsIO.                  *)
(*                                                                         *)
(* Every service call is an async function.  The table operations of       *)
(* better-sqlite3 are synchronous, so each of them is atomic; a call can   *)
(* be interleaved with other calls and with the passage of time at each    *)
(* await.  One action of the model is the code that runs between two       *)
(* awaits.                                                                 *)
(*                                                                         *)
(* Spec and SpecFaults are the running service (SpecFaults with failing    *)
(* table statements), SpecRace two requests for one name, SpecLife the     *)
(* process from its start (ConfigurationManager, construction, tool        *)
(* registration, close), SpecFetch the registry client alone.              *)
(***************************************************************************)
EXTENDS Integers, Sequences, FiniteSets, TLC

\* ---------------------------------------------------------------- bounds
\* Largest configured cacheTtl, in seconds.
MaxTtl == 1
\* The clock advances in steps of TickMs milliseconds.
TickMs == 500
\* The clock stops at MaxNow milliseconds.
MaxNow == 1000

\* isCached: ttl * 1000
MsPerSec == 1000

\* Package names that are requested.
Names == {"a", "b"}
\* The callers that run calls on the one NpmDocService: the tool's request
\* handler, which calls getDocumentation, and another user of the service
\* object, which invalidates, asks isDocCached and forces fresh fetches.
Requesters == {"c1"}
Others == {"c2"}
Calls == Requesters \cup Others

\* The JavaScript value undefined (a property that is absent reads as it).
Undef == "undefined"
\* clearCache called with no argument.
NoArg == "<no argument>"

\* ------------------------------------------------- documentation records
\* The properties of the object literal built by fetchFromNpmsIO, in order.
DocKeys ==
    << "name", "version", "description", "homepage", "repository", "author",
       "license", "keywords", "dependencies", "devDependencies",
       "readmeContent", "readme" >>

\* JavaScript truthiness of a string-or-undefined value.
Truthy(v) == v # Undef /\ v # ""

\* a || b
OrElse(a, b) == IF Truthy(a) THEN a ELSE b

\* collected.metadata of one upstream answer; an absent field is Undef.
\* links.homepage, links.repository and author.name are flattened.
MetaBase(n) ==
    [ name |-> n, version |-> Undef, description |-> Undef,
      homepage |-> Undef, repository |-> Undef, author |-> Undef,
      license |-> Undef, keywords |-> Undef, dependencies |-> Undef,
      devDependencies |-> Undef, readme |-> Undef ]

\* The metadata objects the registry may answer with for package n.
Upstream(n) ==
    { [MetaBase(n) EXCEPT !.version = "1.0.0", !.license = "MIT",
                          !.readme = "# readme"],
      [MetaBase(n) EXCEPT !.description = "text", !.readme = ""],
      [MetaBase(n) EXCEPT !.name = Undef] }

\* What axios.get can end with: an HTTP response (2xx resolves, any other
\* status rejects with error.response), a request that got no response
\* (timeout included), or a failure that is not an axios error with a request.
Responses(n) ==
    { [kind |-> "response", status |-> 200, hasMeta |-> TRUE, metadata |-> m] :
          m \in Upstream(n) }
    \cup { [kind |-> "response", status |-> 200, hasMeta |-> FALSE],
           [kind |-> "response", status |-> 404, hasMeta |-> FALSE],
           [kind |-> "response", status |-> 500, hasMeta |-> FALSE],
           [kind |-> "noresponse"],
           [kind |-> "other"] }

\* Mutant of Normalize: version and description are copied without their
\* defaults.
Normalize_noDefaults(m) ==
    [ name |-> m.name,
      version |-> m.version,
      description |-> m.description,
      homepage |-> m.homepage,
      repository |-> m.repository,
      author |-> m.author,
      license |-> m.license,
      keywords |-> m.keywords,
      dependencies |-> m.dependencies,
      devDependencies |-> m.devDependencies,
      readmeContent |-> m.readme,
      readme |-> IF Truthy(m.readme) THEN "README content included via npms.io"
                 ELSE Undef ]

\* The NpmDocumentation literal of fetchFromNpmsIO.
Normalize(m) ==
    [ name |-> m.name,
      version |-> OrElse(m.version, "unknown"),
      description |-> OrElse(m.description, ""),
      homepage |-> m.homepage,
      repository |-> m.repository,
      author |-> m.author,
      license |-> m.license,
      keywords |-> m.keywords,
      dependencies |-> m.dependencies,
      devDependencies |-> m.devDependencies,
      readmeContent |-> m.readme,
      readme |-> IF Truthy(m.readme) THEN "README content included via npms.io"
                 ELSE Undef ]

Ok(d) == [ok |-> TRUE, doc |-> d]
Thrown(e) == [ok |-> FALSE, error |-> e]

\* Mutant of FetchFromNpmsIO: every HTTP error response is taken as 404.
FetchFromNpmsIO_allNotFound(resp) ==
    IF resp.kind = "response" /\ resp.status \in 200..299
    THEN IF ~resp.hasMeta \/ ~Truthy(resp.metadata.name)
         THEN Thrown("NotFoundError")
         ELSE Ok(Normalize(resp.metadata))
    ELSE IF resp.kind = "response" THEN Thrown("NotFoundError")
    ELSE IF resp.kind = "noresponse" THEN Thrown("NetworkError")
    ELSE Thrown("Error")

\* fetchFromNpmsIO: the outcome of the one HTTP GET, classified.  axios
\* resolves on a status 2xx and rejects on every other.
FetchFromNpmsIO(resp) ==
    IF resp.kind = "response" /\ resp.status \in 200..299
    THEN IF ~resp.hasMeta \/ ~Truthy(resp.metadata.name)
         THEN Thrown("NotFoundError")
         ELSE Ok(Normalize(resp.metadata))
    ELSE IF resp.kind = "response"
    THEN IF resp.status = 404 THEN Thrown("NotFoundError")
         ELSE Thrown("NetworkError")
    ELSE IF resp.kind = "noresponse" THEN Thrown("NetworkError")
    ELSE Thrown("Error")

\* ------------------------------------------------------- JSON conversion
\* JSON text is modelled as its token sequence: "{", then key and value of
\* every property, then "}".

\* Mutant of Members: every falsy value is left out, not only undefined.
RECURSIVE Members_dropsEmpty(_, _)
Members_dropsEmpty(d, i) ==
    IF i > Len(DocKeys) THEN << >>
    ELSE IF ~Truthy(d[DocKeys[i]]) THEN Members_dropsEmpty(d, i + 1)
    ELSE << DocKeys[i], d[DocKeys[i]] >> \o Members_dropsEmpty(d, i + 1)

RECURSIVE Members(_, _)
Members(d, i) ==
    IF i > Len(DocKeys) THEN << >>
    ELSE IF d[DocKeys[i]] = Undef THEN Members(d, i + 1)
    ELSE << DocKeys[i], d[DocKeys[i]] >> \o Members(d, i + 1)

\* JSON.stringify(documentation): a property whose value is undefined is
\* left out.
Stringify(d) == << "{" >> \o Members(d, 1) \o << "}" >>

\* Whether JSON.parse(text) returns rather than throws.
Parsable(text) ==
    /\ Len(text) >= 2
    /\ Len(text) % 2 = 0
    /\ text[1] = "{"
    /\ text[Len(text)] = "}"

\* JSON.parse(text) of a parsable text: an object with the properties the
\* text lists.
Parse(text) ==
    LET n == (Len(text) - 2) \div 2
        keys == { text[2 * i] : i \in 1..n }
    IN  [ k \in keys |-> text[2 * (CHOOSE i \in 1..n : text[2 * i] = k) + 1] ]

\* Reading property k of object d.
Field(d, k) == IF k \in DOMAIN d THEN d[k] ELSE Undef

\* ------------------------------------------------------------- the table
\* npm_docs_cache: package_name is the primary key, so the table is a
\* function from names to a row or to no row.
NoRow == [present |-> FALSE]
Row(text, at, ttl) ==
    [present |-> TRUE, documentation |-> text, fetched_at |-> at, ttl |-> ttl]

NullEntry == [isNull |-> TRUE]
Entry(n, row) ==
    [ isNull |-> FALSE, packageName |-> n,
      documentation |-> Parse(row.documentation),
      fetchedAt |-> row.fetched_at, ttl |-> row.ttl ]

\* Mutant of DeleteRows: the WHERE clause is used whatever the argument.
DeleteRows_alwaysWhere(st, arg) ==
    [ n \in DOMAIN st |-> IF n = arg THEN NoRow ELSE st[n] ]

\* DELETE FROM npm_docs_cache [WHERE package_name = ?]; `if (packageName)`
\* takes the single-row branch for a non-empty string only.
DeleteRows(st, arg) ==
    IF arg # NoArg /\ arg # ""
    THEN [ n \in DOMAIN st |-> IF n = arg THEN NoRow ELSE st[n] ]
    ELSE [ n \in DOMAIN st |-> NoRow ]

\* Mutant of CacheClear: the statement has run when the error is thrown.
CacheClear_deletesThenThrows(st, arg, f) ==
    IF f = "delete"
    THEN [store |-> DeleteRows(st, arg), threw |-> TRUE]
    ELSE [store |-> DeleteRows(st, arg), threw |-> FALSE]

\* CacheService.clearCache: f = "delete" is a failure of the statement.
CacheClear(st, arg, f) ==
    IF f = "delete"
    THEN [store |-> st, threw |-> TRUE]
    ELSE [store |-> DeleteRows(st, arg), threw |-> FALSE]

\* Mutant of CacheGet: an unparsable row is reported absent but left stored.
CacheGet_keepsCorrupt(st, n, f) ==
    IF f = "select" THEN [entry |-> NullEntry, store |-> st, failed |-> TRUE]
    ELSE IF ~st[n].present
    THEN [entry |-> NullEntry, store |-> st, failed |-> FALSE]
    ELSE IF ~Parsable(st[n].documentation)
    THEN [entry |-> NullEntry, store |-> st, failed |-> FALSE]
    ELSE [entry |-> Entry(n, st[n]), store |-> st, failed |-> FALSE]

\* CacheService.get: f = "select" is a failure of the SELECT, f = "delete" a
\* failure of the DELETE that removes a corrupted row.  Never throws.
CacheGet(st, n, f) ==
    IF f = "select" THEN [entry |-> NullEntry, store |-> st, failed |-> TRUE]
    ELSE IF ~st[n].present
    THEN [entry |-> NullEntry, store |-> st, failed |-> FALSE]
    ELSE IF ~Parsable(st[n].documentation)
    THEN [ entry |-> NullEntry, store |-> CacheClear(st, n, f).store,
           failed |-> CacheClear(st, n, f).threw ]
    ELSE [entry |-> Entry(n, st[n]), store |-> st, failed |-> FALSE]

\* Mutant of CacheSet: the old row is deleted before the insert, and stays
\* deleted when the insert fails.
CacheSet_dropsOld(st, n, d, ttl, t, f) ==
    IF f = "insert"
    THEN [store |-> [st EXCEPT ![n] = NoRow], threw |-> TRUE]
    ELSE [ store |-> [st EXCEPT ![n] = Row(Stringify(d), t, ttl)],
           threw |-> FALSE ]

\* Mutant of CacheSet: INSERT OR IGNORE, a stored row is kept.
CacheSet_keepsOld(st, n, d, ttl, t, f) ==
    IF f = "insert"
    THEN [store |-> st, threw |-> TRUE]
    ELSE [ store |-> IF st[n].present THEN st
                     ELSE [st EXCEPT ![n] = Row(Stringify(d), t, ttl)],
           threw |-> FALSE ]

\* CacheService.set: INSERT OR REPLACE with fetched_at = Date.now();
\* f = "insert" is a failure of the statement, reported as CacheError.
CacheSet(st, n, d, ttl, t, f) ==
    IF f = "insert"
    THEN [store |-> st, threw |-> TRUE]
    ELSE [ store |-> [st EXCEPT ![n] = Row(Stringify(d), t, ttl)],
           threw |-> FALSE ]

\* Mutant of IsValid: now <= expiryTime.
IsValid_inclusive(fetchedAt, ttl, t) == t <= fetchedAt + ttl * MsPerSec

\* isCached: now < expiryTime, expiryTime = fetchedAt + ttl * 1000.
IsValid(fetchedAt, ttl, t) == t < fetchedAt + ttl * MsPerSec

\* Mutant of IsCachedOf: the comparison is inverted, expired means valid.
IsCachedOf_inverted(entry, t) ==
    IF entry.isNull THEN FALSE ELSE ~IsValid(entry.fetchedAt, entry.ttl, t)

\* Mutant of IsCachedOf: an entry that exists counts as cached, whatever
\* its age.
IsCachedOf_anyAge(entry, t) == ~entry.isNull

\* isCached, from the entry its get returned and the clock read afterwards.
IsCachedOf(entry, t) ==
    IF entry.isNull THEN FALSE ELSE IsValid(entry.fetchedAt, entry.ttl, t)

\* A valid row at time t: present, parsable and less than ttl seconds old.
RowValid(row, t) ==
    /\ row.present
    /\ Parsable(row.documentation)
    /\ t < row.fetched_at + row.ttl * 1000

\* ---------------------------------------------------------------- state
VARIABLES
    store,      \* the table npm_docs_cache
    now,        \* the clock, in milliseconds
    cacheTtl,   \* config.cacheTtl of the NpmDocService, in seconds
    call,       \* per caller: the service call it is running
    env,        \* process.env: NPM_CACHE_TTL as its characters, and
                \* NPM_REGISTRY_URL
    instance,   \* ConfigurationManager.instance
    service,    \* the NpmDocService of npmDocsTool and its database handle
    http,       \* one call of fetchFromNpmsIO taken alone
    instanceLock,   \* ConfigurationManager.instanceLock
    holder,     \* what the calls of getInstance have done so far
    copy        \* an object a caller got from getNpmDocServiceConfig

vars ==
    << store, now, cacheTtl, call, env, instance, service, http,
       instanceLock, holder, copy >>

\* What the calls of the running service leave alone.
process == << env, instance, service, http, instanceLock, holder, copy >>

NotFetched == [pending |-> TRUE]
NoResult == [kind |-> "none"]
DocResult(d) == [kind |-> "doc", doc |-> d]
BoolResult(b) == [kind |-> "bool", value |-> b]
VoidResult == [kind |-> "void"]
ErrorResult(e) == [kind |-> "error", error |-> e]

\* A caller that runs no call.  op .. result are the call's own state; the
\* fields after them are history kept for the properties.
IdleCall ==
    [ op |-> "none", pc |-> "idle", packageName |-> "", forceFresh |-> FALSE,
      cacheEntry |-> NullEntry, isCached |-> FALSE, fetched |-> NotFetched,
      result |-> NoResult,
      reads |-> 0,            \* CacheService.get calls made
      fetches |-> 0,          \* fetchFromNpmsIO calls made
      sets |-> 0,             \* CacheService.set calls made
      writes |-> {},          \* rows this call inserted, replaced or deleted
      readFailed |-> FALSE,   \* a statement of one of its gets failed
      setFailed |-> FALSE,    \* its set failed
      undisturbed |-> FALSE ] \* getDocumentation(n, false) began on a valid
                              \* row and the row has not changed since

\* A change of the row of n; corrupt: the row replaced was unparsable.
Write(kind, n, row) ==
    [ op |-> kind, key |-> n,
      corrupt |-> row.present /\ ~Parsable(row.documentation) ]

\* The calls after the table changed from st to st2: a call whose row
\* changed is no longer undisturbed.
Disturbed(cs, st, st2) ==
    [ c \in Calls |->
        IF /\ cs[c].undisturbed
           /\ st2[cs[c].packageName] # st[cs[c].packageName]
        THEN [cs[c] EXCEPT !.undisturbed = FALSE]
        ELSE cs[c] ]

\* Mutant of OnFetchError: the error is wrapped in a generic Error.
OnFetchError_wrapped(e) == ErrorResult("Error")

\* catch (fetchError) { throw fetchError }
OnFetchError(e) == ErrorResult(e)

\* Mutant of OnSetError: the CacheError of set is thrown on.
OnSetError_rethrown(d) == ErrorResult("CacheError")

\* catch (cacheError) { log } ... return docs
OnSetError(d) == DocResult(d)

\* -------------------------------------------------------------- actions
\* The start of cacheService.isCached(n): its get runs synchronously, then
\* the call awaits.
StartIsCached(c, opName, n, f) ==
    LET g == CacheGet(store, n, f)
        started ==
            [IdleCall EXCEPT
                !.op = opName, !.pc = "isCachedNow", !.packageName = n,
                !.cacheEntry = g.entry, !.reads = 1, !.readFailed = g.failed,
                !.writes = IF g.store # store
                           THEN {Write("delete", n, store[n])} ELSE {},
                !.undisturbed = /\ opName = "getDocumentation"
                                /\ RowValid(store[n], now)]
    IN  /\ store' = g.store
        /\ call' = Disturbed([call EXCEPT ![c] = started], store, g.store)

\* NpmDocService.getDocumentation(n, ff) up to its first await.
GetDocumentation(c, n, ff, f) ==
    /\ call[c].pc = "idle"
    /\ IF ff
       THEN /\ f = "ok"
            /\ call' = [call EXCEPT ![c] =
                   [IdleCall EXCEPT
                       !.op = "getDocumentation", !.pc = "fetching",
                       !.packageName = n, !.forceFresh = TRUE,
                       !.fetches = 1]]
            /\ UNCHANGED store
       ELSE /\ f \in {"ok", "select", "delete"}
            /\ StartIsCached(c, "getDocumentation", n, f)
    /\ UNCHANGED << now, cacheTtl >>

\* NpmDocService.isDocCached(n) up to its first await.
IsDocCached(c, n, f) ==
    /\ call[c].pc = "idle"
    /\ f \in {"ok", "select", "delete"}
    /\ StartIsCached(c, "isDocCached", n, f)
    /\ UNCHANGED << now, cacheTtl >>

\* The rest of isCached: the clock is read after the await of get.
IsCachedNow(c) ==
    /\ call[c].pc = "isCachedNow"
    /\ LET v == IsCachedOf(call[c].cacheEntry, now)
       IN  call' = [call EXCEPT ![c] =
               IF call[c].op = "isDocCached"
               THEN [@ EXCEPT !.pc = "done", !.isCached = v,
                              !.result = BoolResult(v)]
               ELSE [@ EXCEPT !.pc = "afterIsCached", !.isCached = v]]
    /\ UNCHANGED << store, now, cacheTtl >>

\* Mutant of AfterIsCached: a failed read ends the call with a CacheError.
AfterIsCached_rethrows(c, f) ==
    /\ call[c].pc = "afterIsCached"
    /\ LET n == call[c].packageName
           g == CacheGet(store, n, f)
       IN  IF call[c].isCached
           THEN /\ f \in {"ok", "select", "delete"}
                /\ store' = g.store
                /\ call' = Disturbed(
                       [call EXCEPT ![c] =
                           [@ EXCEPT
                               !.reads = @ + 1,
                               !.readFailed = @ \/ g.failed,
                               !.writes = IF g.store # store
                                          THEN @ \cup {Write("delete", n, store[n])}
                                          ELSE @,
                               !.pc = IF g.entry.isNull /\ ~g.failed
                                      THEN "fetching" ELSE "done",
                               !.fetches = IF g.entry.isNull /\ ~g.failed
                                           THEN @ + 1 ELSE @,
                               !.result = IF g.failed THEN ErrorResult("CacheError")
                                          ELSE IF g.entry.isNull THEN @
                                          ELSE DocResult(g.entry.documentation)]],
                       store, g.store)
           ELSE /\ f = "ok"
                /\ call' = [call EXCEPT ![c] =
                       [@ EXCEPT !.pc = "fetching", !.fetches = @ + 1]]
                /\ UNCHANGED store
    /\ UNCHANGED << now, cacheTtl >>

\* Mutant of AfterIsCached: the documentation of the entry is returned
\* without the test of the entry, null for an absent one.
AfterIsCached_returnsNull(c, f) ==
    /\ call[c].pc = "afterIsCached"
    /\ LET n == call[c].packageName
           g == CacheGet(store, n, f)
       IN  IF call[c].isCached
           THEN /\ f \in {"ok", "select", "delete"}
                /\ store' = g.store
                /\ call' = Disturbed(
                       [call EXCEPT ![c] =
                           [@ EXCEPT
                               !.reads = @ + 1,
                               !.readFailed = @ \/ g.failed,
                               !.writes = IF g.store # store
                                          THEN @ \cup {Write("delete", n, store[n])}
                                          ELSE @,
                               !.pc = "done",
                               !.result = IF g.entry.isNull THEN [kind |-> "null"]
                                          ELSE DocResult(g.entry.documentation)]],
                       store, g.store)
           ELSE /\ f = "ok"
                /\ call' = [call EXCEPT ![c] =
                       [@ EXCEPT !.pc = "fetching", !.fetches = @ + 1]]
                /\ UNCHANGED store
    /\ UNCHANGED << now, cacheTtl >>

\* getDocumentation after `await isCached`: the second get and the hit
\* return, or the call of fetchFromNpmsIO.
AfterIsCached(c, f) ==
    /\ call[c].pc = "afterIsCached"
    /\ LET n == call[c].packageName
           g == CacheGet(store, n, f)
       IN  IF call[c].isCached
           THEN /\ f \in {"ok", "select", "delete"}
                /\ store' = g.store
                /\ call' = Disturbed(
                       [call EXCEPT ![c] =
                           [@ EXCEPT
                               !.reads = @ + 1,
                               !.readFailed = @ \/ g.failed,
                               !.writes = IF g.store # store
                                          THEN @ \cup {Write("delete", n, store[n])}
                                          ELSE @,
                               !.pc = IF g.entry.isNull THEN "fetching" ELSE "done",
                               !.fetches = IF g.entry.isNull THEN @ + 1 ELSE @,
                               !.result = IF g.entry.isNull THEN @
                                          ELSE DocResult(g.entry.documentation)]],
                       store, g.store)
           ELSE /\ f = "ok"
                /\ call' = [call EXCEPT ![c] =
                       [@ EXCEPT !.pc = "fetching", !.fetches = @ + 1]]
                /\ UNCHANGED store
    /\ UNCHANGED << now, cacheTtl >>

\* Mutant of FetchRespond: a failed fetch evicts the row of the name.
FetchRespond_evicts(c, resp) ==
    /\ call[c].pc = "fetching"
    /\ resp \in Responses(call[c].packageName)
    /\ LET o == FetchFromNpmsIO(resp)
           n == call[c].packageName
           st2 == IF o.ok THEN store ELSE DeleteRows(store, n)
       IN  /\ store' = st2
           /\ call' = Disturbed(
                  [call EXCEPT ![c] =
                      IF o.ok
                      THEN [@ EXCEPT !.pc = "store", !.fetched = o]
                      ELSE [@ EXCEPT !.pc = "done", !.fetched = o,
                                     !.writes = IF st2 # store
                                                THEN @ \cup {Write("delete", n, store[n])}
                                                ELSE @,
                                     !.result = OnFetchError(o.error)]],
                  store, st2)
    /\ UNCHANGED << now, cacheTtl >>

\* Mutant of FetchRespond: a failed GET is tried once more.
FetchRespond_retries(c, resp) ==
    /\ call[c].pc = "fetching"
    /\ resp \in Responses(call[c].packageName)
    /\ LET o == FetchFromNpmsIO(resp)
       IN  call' = [call EXCEPT ![c] =
               IF o.ok
               THEN [@ EXCEPT !.pc = "store", !.fetched = o]
               ELSE IF call[c].fetches = 1
               THEN [@ EXCEPT !.fetches = 2]
               ELSE [@ EXCEPT !.pc = "done", !.fetched = o,
                              !.result = OnFetchError(o.error)]]
    /\ UNCHANGED << store, now, cacheTtl >>

\* Mutant of FetchRespond: the GET has no timeout, a request that gets no
\* response stays pending.
FetchRespond_noTimeout(c, resp) ==
    /\ call[c].pc = "fetching"
    /\ resp \in Responses(call[c].packageName)
    /\ LET o == FetchFromNpmsIO(resp)
       IN  call' = [call EXCEPT ![c] =
               IF o.ok
               THEN [@ EXCEPT !.pc = "store", !.fetched = o]
               ELSE IF resp.kind = "noresponse"
               THEN @
               ELSE [@ EXCEPT !.pc = "done", !.fetched = o,
                              !.result = OnFetchError(o.error)]]
    /\ UNCHANGED << store, now, cacheTtl >>

\* The HTTP GET of fetchFromNpmsIO ends with resp.
FetchRespond(c, resp) ==
    /\ call[c].pc = "fetching"
    /\ resp \in Responses(call[c].packageName)
    /\ LET o == FetchFromNpmsIO(resp)
       IN  call' = [call EXCEPT ![c] =
               IF o.ok
               THEN [@ EXCEPT !.pc = "store", !.fetched = o]
               ELSE [@ EXCEPT !.pc = "done", !.fetched = o,
                              !.result = OnFetchError(o.error)]]
    /\ UNCHANGED << store, now, cacheTtl >>

\* Mutant of StoreFetched: the TTL is handed to set in milliseconds.
StoreFetched_ttlInMs(c, f) ==
    /\ call[c].pc = "store"
    /\ f \in {"ok", "insert"}
    /\ LET n == call[c].packageName
           d == call[c].fetched.doc
           s == CacheSet(store, n, d, cacheTtl * MsPerSec, now, f)
       IN  /\ store' = s.store
           /\ call' = Disturbed(
                  [call EXCEPT ![c] =
                      [@ EXCEPT
                          !.pc = "done", !.sets = @ + 1, !.setFailed = s.threw,
                          !.writes = IF s.threw THEN @
                                     ELSE @ \cup {Write("set", n, store[n])},
                          !.result = IF s.threw THEN OnSetError(d)
                                     ELSE DocResult(d)]],
                  store, s.store)
    /\ UNCHANGED << now, cacheTtl >>

\* getDocumentation after the fetch: cacheService.set, then return docs.
StoreFetched(c, f) ==
    /\ call[c].pc = "store"
    /\ f \in {"ok", "insert"}
    /\ LET n == call[c].packageName
           d == call[c].fetched.doc
           s == CacheSet(store, n, d, cacheTtl, now, f)
       IN  /\ store' = s.store
           /\ call' = Disturbed(
                  [call EXCEPT ![c] =
                      [@ EXCEPT
                          !.pc = "done", !.sets = @ + 1, !.setFailed = s.threw,
                          !.writes = IF s.threw THEN @
                                     ELSE @ \cup {Write("set", n, store[n])},
                          !.result = IF s.threw THEN OnSetError(d)
                                     ELSE DocResult(d)]],
                  store, s.store)
    /\ UNCHANGED << now, cacheTtl >>

ClearArgs == Names \cup {"", NoArg}

\* NpmDocService.clearCache(arg): no await before the statement has run.
ClearCache(c, arg, f) ==
    /\ call[c].pc = "idle"
    /\ arg \in ClearArgs
    /\ f \in {"ok", "delete"}
    /\ LET r == CacheClear(store, arg, f)
       IN  /\ store' = r.store
           /\ call' = Disturbed(
                  [call EXCEPT ![c] =
                      [IdleCall EXCEPT
                          !.op = "clearCache", !.pc = "done",
                          !.packageName = arg,
                          !.result = IF r.threw THEN ErrorResult("CacheError")
                                     ELSE VoidResult]],
                  store, r.store)
    /\ UNCHANGED << now, cacheTtl >>

\* The caller has taken the result; it may start another call.
Return(c) ==
    /\ call[c].pc = "done"
    /\ call' = [call EXCEPT ![c] = IdleCall]
    /\ UNCHANGED << store, now, cacheTtl >>

\* Mutant of Tick: a sweep deletes the rows that have expired as time passes.
Tick_sweeps ==
    /\ TickMs > 0
    /\ now + TickMs <= MaxNow
    /\ now' = now + TickMs
    /\ LET st2 == [ n \in DOMAIN store |->
                      IF store[n].present /\ ~RowValid(store[n], now + TickMs)
                      THEN NoRow ELSE store[n] ]
       IN  /\ store' = st2
           /\ call' = Disturbed(call, store, st2)
    /\ UNCHANGED cacheTtl

\* Time passes.
Tick ==
    /\ TickMs > 0
    /\ now + TickMs <= MaxNow
    /\ now' = now + TickMs
    /\ UNCHANGED << store, cacheTtl, call >>

\* The stored text of a row is damaged outside the service (the file is
\* shared with whatever else writes it): only its first token is left.
CorruptPayload(n) ==
    /\ store[n].present
    /\ Parsable(store[n].documentation)
    /\ LET text == store[n].documentation
           st2 == [store EXCEPT ![n].documentation =
                       SubSeq(text, 1, 1)]
       IN  /\ store' = st2
           /\ call' = Disturbed(call, store, st2)
    /\ UNCHANGED << now, cacheTtl >>

\* -------------------------------------------------------- configuration
\* ConfigurationManager: cacheTtl: 86400
DefaultCacheTtl == 86400

\* The npmDocService defaults of the ConfigurationManager constructor.
DefaultConfig ==
    [ cacheTtl |-> DefaultCacheTtl, dbPath |-> "npm-docs-cache.db",
      npmRegistry |-> "https://registry.npmjs.org" ]

\* A JavaScript number that is an integer, and NaN.
Num(v) == [nan |-> FALSE, value |-> v]
NaN == [nan |-> TRUE, value |-> 0]

Digits == << "0", "1", "2", "3", "4", "5", "6", "7", "8", "9" >>
IsDigit(ch) == \E i \in 1..Len(Digits) : Digits[i] = ch
DigitOf(ch) == (CHOOSE i \in 1..Len(Digits) : Digits[i] = ch) - 1

\* The value of the digits of text from position i on, up to the first
\* character that is no digit.
RECURSIVE LeadingDigits(_, _, _)
LeadingDigits(text, i, acc) ==
    IF i > Len(text) \/ ~IsDigit(text[i]) THEN acc
    ELSE LeadingDigits(text, i + 1, acc * 10 + DigitOf(text[i]))

\* parseInt(text, 10): an optional sign, then the leading digits; NaN when
\* there is no digit there.
ParseInt(text) ==
    LET signed == Len(text) > 0 /\ text[1] \in {"-", "+"}
        first == IF signed THEN 2 ELSE 1
        v == LeadingDigits(text, first, 0)
    IN  IF first > Len(text) \/ ~IsDigit(text[first]) THEN NaN
        ELSE IF signed /\ text[1] = "-" THEN Num(0 - v) ELSE Num(v)

\* The values of NPM_CACHE_TTL a process is started with; the empty text is
\* the unset variable (both are falsy).
EnvTtls ==
    { << >>, << "1" >>, << "0" >>, << "-", "1" >>, << "a", "b", "c" >>,
      << "1", "x" >> }

\* The values of NPM_REGISTRY_URL; the empty text is the unset variable.
EnvRegistries == {"", "https://registry.example.org"}

\* The environments a process is started in.
Envs == [NPM_CACHE_TTL : EnvTtls, NPM_REGISTRY_URL : EnvRegistries]

\* loadEnvironmentOverrides: NPM_CACHE_TTL replaces cacheTtl when it parses
\* to a number greater than 0, NPM_REGISTRY_URL replaces npmRegistry when it
\* is set.
LoadEnvironmentOverrides(config, e) ==
    LET withTtl ==
            IF e.NPM_CACHE_TTL # << >>
            THEN LET ttl == ParseInt(e.NPM_CACHE_TTL)
                 IN  IF ~ttl.nan /\ ttl.value > 0
                     THEN [config EXCEPT !.cacheTtl = ttl.value]
                     ELSE config
            ELSE config
    IN  IF e.NPM_REGISTRY_URL # ""
        THEN [withTtl EXCEPT !.npmRegistry = e.NPM_REGISTRY_URL]
        ELSE withTtl

NoInstance == [created |-> FALSE]

\* No call of getInstance has been made: the constructor has not run.
NoHolder == [constructions |-> 0, threw |-> FALSE, last |-> "none"]

\* The record of the calls after a getInstance() that met holder state inst
\* and whose constructor, when it ran, ran to its end.
Got(h, inst) ==
    [h EXCEPT !.constructions = IF inst.created THEN @ ELSE @ + 1,
              !.last = "instance"]

\* No caller holds an object returned by getNpmDocServiceConfig.
NoCopy == [held |-> FALSE]

\* The holder's record was replaced by a new object: an object handed out
\* before is not that record.
Detached(cp) == IF cp.held THEN [cp EXCEPT !.shared = FALSE] ELSE cp

\* ConfigurationManager.getInstance(): the constructor runs once, and runs
\* to its end without an await, so the lock is never seen held.
GetInstance(inst, e) ==
    IF inst.created THEN inst
    ELSE [ created |-> TRUE,
           npmDocService |-> LoadEnvironmentOverrides(DefaultConfig, e) ]

\* getNpmDocServiceConfig(): a copy of the holder's record.
GetNpmDocServiceConfig(inst) == inst.npmDocService

\* A Partial<NpmDocServiceConfig> that sets cacheTtl, or sets nothing.
NoOverride == [has |-> FALSE, cacheTtl |-> 0]
Override(v) == [has |-> TRUE, cacheTtl |-> v]
TtlOverrides == {0 - 1, 0} \cup 1..MaxTtl
Partials == {NoOverride} \cup { Override(v) : v \in TtlOverrides }

\* { ...config, ...update }
Spread(config, update) ==
    IF update.has THEN [config EXCEPT !.cacheTtl = update.cacheTtl]
    ELSE config

\* updateNpmDocServiceConfig(update) on ConfigurationManager.getInstance().
UpdateNpmDocServiceConfig(update) ==
    /\ update \in Partials
    /\ instance' =
           [ GetInstance(instance, env) EXCEPT
                 !.npmDocService = Spread(@, update) ]
    /\ holder' = Got(holder, instance)
    /\ copy' = Detached(copy)
    /\ UNCHANGED << store, now, cacheTtl, call, env, service, http,
                    instanceLock >>

\* How `new ConfigurationManager()` ends.
ConstructorOutcomes == {"ok", "throws"}

\* Mutant of GetInstanceCall: the lock is released after the constructor,
\* without try/finally.
GetInstanceCall_noFinally(outcome) ==
    /\ outcome \in ConstructorOutcomes
    /\ IF instance.created
       THEN /\ holder' = [holder EXCEPT !.last = "instance"]
            /\ UNCHANGED << instance, instanceLock >>
       ELSE IF ~instanceLock
       THEN IF outcome = "ok"
            THEN /\ instance' = GetInstance(instance, env)
                 /\ instanceLock' = FALSE
                 /\ holder' = Got(holder, instance)
            ELSE /\ instanceLock' = TRUE
                 /\ holder' = [holder EXCEPT !.threw = TRUE, !.last = "threw"]
                 /\ UNCHANGED instance
       ELSE /\ holder' = [holder EXCEPT !.last = "spins"]
            /\ UNCHANGED << instance, instanceLock >>
    /\ UNCHANGED << store, now, cacheTtl, call, env, service, http, copy >>

\* A call of ConfigurationManager.getInstance() on its own, the whole of it
\* in one step (it has no await): the instance is returned when there is one;
\* else, the lock being free, it is taken, the constructor runs and the lock
\* is released in `finally`, whether the constructor returned or threw; else
\* the call spins in `while (instanceLock) { }`.
GetInstanceCall(outcome) ==
    /\ outcome \in ConstructorOutcomes
    /\ IF instance.created
       THEN /\ holder' = [holder EXCEPT !.last = "instance"]
            /\ UNCHANGED << instance, instanceLock >>
       ELSE IF ~instanceLock
       THEN IF outcome = "ok"
            THEN /\ instance' = GetInstance(instance, env)
                 /\ instanceLock' = FALSE
                 /\ holder' = Got(holder, instance)
            ELSE /\ instanceLock' = FALSE
                 /\ holder' = [holder EXCEPT !.threw = TRUE, !.last = "threw"]
                 /\ UNCHANGED instance
       ELSE /\ holder' = [holder EXCEPT !.last = "spins"]
            /\ UNCHANGED << instance, instanceLock >>
    /\ UNCHANGED << store, now, cacheTtl, call, env, service, http, copy >>

\* Mutant of GetConfig: the holder's own record is returned.
GetConfig_sameObject ==
    /\ instance' = GetInstance(instance, env)
    /\ holder' = Got(holder, instance)
    /\ copy' = [ held |-> TRUE, shared |-> TRUE,
                 value |-> GetNpmDocServiceConfig(GetInstance(instance, env)) ]
    /\ UNCHANGED << store, now, cacheTtl, call, env, service, http,
                    instanceLock >>

\* ConfigurationManager.getInstance().getNpmDocServiceConfig() by some
\* caller, who keeps the object returned: a new object with the properties
\* of the holder's record.
GetConfig ==
    /\ instance' = GetInstance(instance, env)
    /\ holder' = Got(holder, instance)
    /\ copy' = [ held |-> TRUE, shared |-> FALSE,
                 value |-> GetNpmDocServiceConfig(GetInstance(instance, env)) ]
    /\ UNCHANGED << store, now, cacheTtl, call, env, service, http,
                    instanceLock >>

\* The caller assigns cacheTtl of the object it holds; when that object is
\* the holder's record, the holder's record has changed with it.
MutateCopy(v) ==
    /\ copy.held
    /\ v \in TtlOverrides
    /\ copy' = [copy EXCEPT !.value.cacheTtl = v]
    /\ instance' = IF copy.shared
                   THEN [instance EXCEPT !.npmDocService.cacheTtl = v]
                   ELSE instance
    /\ UNCHANGED << store, now, cacheTtl, call, env, service, http,
                    instanceLock, holder >>

\* ------------------------------------------------------------ lifecycle
\* How `new CacheService(dbPath)` ends: the database opens and the table is
\* there, or opening throws, or CREATE TABLE IF NOT EXISTS throws.
OpenOutcomes == {"ok", "open", "exec"}

\* The CacheService constructor: either failure leaves it as a CacheError.
NewCacheService(outcome) ==
    IF outcome = "ok" THEN [ok |-> TRUE, error |-> "none"]
    ELSE [ok |-> FALSE, error |-> "CacheError"]

\* No NpmDocService has been constructed.
NoService ==
    [ state |-> "absent", dbOpen |-> FALSE, registered |-> FALSE,
      error |-> "none", lastClose |-> "none" ]

\* The NpmDocService constructor: the error of the CacheService constructor
\* is thrown on, and then there is no instance.
NewNpmDocService(config, outcome) ==
    LET cache == NewCacheService(outcome)
        merged == Spread(GetNpmDocServiceConfig(GetInstance(instance, env)),
                         config)
    IN  IF cache.ok
        THEN [ service |-> [NoService EXCEPT !.state = "ready",
                                             !.dbOpen = TRUE],
               cacheTtl |-> merged.cacheTtl ]
        ELSE [ service |-> [NoService EXCEPT !.state = "failed",
                                             !.error = cache.error],
               cacheTtl |-> cacheTtl ]

\* Mutant of NpmDocsTool: the tool is registered whether or not the service
\* was constructed.
NpmDocsTool_registersAnyway(outcome) ==
    /\ service.state = "absent"
    /\ outcome \in OpenOutcomes
    /\ LET made == NewNpmDocService(NoOverride, outcome)
       IN  /\ service' = [made.service EXCEPT !.registered = TRUE]
           /\ cacheTtl' = made.cacheTtl
    /\ instance' = GetInstance(instance, env)
    /\ holder' = Got(holder, instance)
    /\ UNCHANGED << store, now, call, env, http, instanceLock, copy >>

\* npmDocsTool(server), run once by registerTools: the service is constructed
\* with no override, and server.tool is called only when that succeeded.
NpmDocsTool(outcome) ==
    /\ service.state = "absent"
    /\ outcome \in OpenOutcomes
    /\ LET made == NewNpmDocService(NoOverride, outcome)
       IN  /\ service' = [made.service EXCEPT
                              !.registered = (made.service.state = "ready")]
           /\ cacheTtl' = made.cacheTtl
    /\ instance' = GetInstance(instance, env)
    /\ holder' = Got(holder, instance)
    /\ UNCHANGED << store, now, call, env, http, instanceLock, copy >>

\* `new NpmDocService(config)` by a user of the class other than the tool.
Construct(config, outcome) ==
    /\ service.state = "absent"
    /\ config \in Partials
    /\ config.has
    /\ outcome \in OpenOutcomes
    /\ LET made == NewNpmDocService(config, outcome)
       IN  /\ service' = made.service
           /\ cacheTtl' = made.cacheTtl
    /\ instance' = GetInstance(instance, env)
    /\ holder' = Got(holder, instance)
    /\ UNCHANGED << store, now, call, env, http, instanceLock, copy >>

\* How this.db.close() ends.
CloseOutcomes == {"ok", "throws"}

\* Mutant of Close: db.close() is called whatever the state of the handle,
\* and closing a closed handle throws.
Close_unguarded(c, outcome) ==
    /\ call[c].pc = "idle"
    /\ service.state = "ready"
    /\ outcome \in CloseOutcomes
    /\ service' =
           IF service.dbOpen /\ outcome = "ok"
           THEN [service EXCEPT !.dbOpen = FALSE, !.lastClose = "closed"]
           ELSE [service EXCEPT !.lastClose = "failed"]
    /\ call' = [call EXCEPT ![c] =
           [IdleCall EXCEPT !.op = "close", !.pc = "done",
                            !.result = IF service.dbOpen THEN VoidResult
                                       ELSE ErrorResult("TypeError")]]
    /\ UNCHANGED << store, now, cacheTtl, env, instance, http,
                    instanceLock, holder, copy >>

\* NpmDocService.close(): CacheService.close() closes an open handle and
\* logs; an error of db.close() is logged, not thrown; on a closed handle it
\* only warns.  lastClose is the line it logged.
Close(c, outcome) ==
    /\ call[c].pc = "idle"
    /\ service.state = "ready"
    /\ outcome \in CloseOutcomes
    /\ service' =
           IF ~service.dbOpen THEN [service EXCEPT !.lastClose = "already"]
           ELSE IF outcome = "ok"
           THEN [service EXCEPT !.dbOpen = FALSE, !.lastClose = "closed"]
           ELSE [service EXCEPT !.lastClose = "failed"]
    /\ call' = [call EXCEPT ![c] =
           [IdleCall EXCEPT !.op = "close", !.pc = "done",
                            !.result = VoidResult]]
    /\ UNCHANGED << store, now, cacheTtl, env, instance, http,
                    instanceLock, holder, copy >>

\* A statement on a closed handle throws: the outcome of a statement that
\* fails as kind does when the handle is closed.
Statement(kind) == IF service.dbOpen THEN "ok" ELSE kind

\* ------------------------------------------------------- specifications
\* No call of fetchFromNpmsIO is looked at alone.
NoHttp == [pc |-> "none"]

\* The service is running: the process was started with NPM_CACHE_TTL set to
\* cacheTtl and registerTools has constructed the service and registered the
\* tool.
Init ==
    /\ store = [n \in Names |-> NoRow]
    /\ now = 0
    /\ cacheTtl \in 1..MaxTtl
    /\ call = [c \in Calls |-> IdleCall]
    /\ env = [ NPM_CACHE_TTL |-> << Digits[cacheTtl + 1] >>,
               NPM_REGISTRY_URL |-> "" ]
    /\ instance = GetInstance(NoInstance, env)
    /\ service = [NoService EXCEPT !.state = "ready", !.dbOpen = TRUE,
                                   !.registered = TRUE]
    /\ http = NoHttp
    /\ instanceLock = FALSE
    /\ holder = Got(NoHolder, NoInstance)
    /\ copy = NoCopy

\* A finished call holds no state of the service, only the result its
\* caller is about to take, and Return commutes with every other action: the
\* specifications let the caller take the result before anything else runs.
Quiet == \A c \in Calls : call[c].pc # "done"

\* Every statement on the table succeeds.
Next ==
    \/ \E c \in Requesters, n \in Names, ff \in BOOLEAN :
           Quiet /\ GetDocumentation(c, n, ff, "ok") /\ UNCHANGED process
    \/ \E c \in Others, n \in Names :
           Quiet /\ GetDocumentation(c, n, TRUE, "ok") /\ UNCHANGED process
    \/ \E c \in Others, n \in Names :
           Quiet /\ IsDocCached(c, n, "ok") /\ UNCHANGED process
    \/ \E c \in Calls : Quiet /\ IsCachedNow(c) /\ UNCHANGED process
    \/ \E c \in Calls : Quiet /\ AfterIsCached(c, "ok") /\ UNCHANGED process
    \/ \E c \in Calls, n \in Names : \E resp \in Responses(n) :
           Quiet /\ FetchRespond(c, resp) /\ UNCHANGED process
    \/ \E c \in Calls : Quiet /\ StoreFetched(c, "ok") /\ UNCHANGED process
    \/ \E c \in Others, arg \in ClearArgs :
           Quiet /\ ClearCache(c, arg, "ok") /\ UNCHANGED process
    \/ \E c \in Calls : Return(c) /\ UNCHANGED process
    \/ Quiet /\ Tick /\ UNCHANGED process
    \/ \E n \in Names : Quiet /\ CorruptPayload(n) /\ UNCHANGED process

Spec == Init /\ [][Next]_vars

\* The operations of the service alone: every statement succeeds and nothing
\* but the service writes the table.
NextOps ==
    \/ \E c \in Requesters, n \in Names, ff \in BOOLEAN :
           Quiet /\ GetDocumentation(c, n, ff, "ok") /\ UNCHANGED process
    \/ \E c \in Others, n \in Names :
           Quiet /\ GetDocumentation(c, n, TRUE, "ok") /\ UNCHANGED process
    \/ \E c \in Others, n \in Names :
           Quiet /\ IsDocCached(c, n, "ok") /\ UNCHANGED process
    \/ \E c \in Calls : Quiet /\ IsCachedNow(c) /\ UNCHANGED process
    \/ \E c \in Calls : Quiet /\ AfterIsCached(c, "ok") /\ UNCHANGED process
    \/ \E c \in Calls, n \in Names : \E resp \in Responses(n) :
           Quiet /\ FetchRespond(c, resp) /\ UNCHANGED process
    \/ \E c \in Calls : Quiet /\ StoreFetched(c, "ok") /\ UNCHANGED process
    \/ \E c \in Others, arg \in ClearArgs :
           Quiet /\ ClearCache(c, arg, "ok") /\ UNCHANGED process
    \/ \E c \in Calls : Return(c) /\ UNCHANGED process
    \/ Quiet /\ Tick /\ UNCHANGED process

SpecOps == Init /\ [][NextOps]_vars

Faults == {"ok", "select", "delete", "insert"}

\* Any statement on the table may fail.
NextFaults ==
    \/ \E c \in Requesters, n \in Names, ff \in BOOLEAN, f \in Faults :
           Quiet /\ GetDocumentation(c, n, ff, f) /\ UNCHANGED process
    \/ \E c \in Others, n \in Names :
           Quiet /\ GetDocumentation(c, n, TRUE, "ok") /\ UNCHANGED process
    \/ \E c \in Others, n \in Names, f \in Faults :
           Quiet /\ IsDocCached(c, n, f) /\ UNCHANGED process
    \/ \E c \in Calls : Quiet /\ IsCachedNow(c) /\ UNCHANGED process
    \/ \E c \in Calls, f \in Faults :
           Quiet /\ AfterIsCached(c, f) /\ UNCHANGED process
    \/ \E c \in Calls, n \in Names : \E resp \in Responses(n) :
           Quiet /\ FetchRespond(c, resp) /\ UNCHANGED process
    \/ \E c \in Calls, f \in Faults :
           Quiet /\ StoreFetched(c, f) /\ UNCHANGED process
    \/ \E c \in Others, arg \in ClearArgs, f \in Faults :
           Quiet /\ ClearCache(c, arg, f) /\ UNCHANGED process
    \/ \E c \in Calls : Return(c) /\ UNCHANGED process
    \/ Quiet /\ Tick /\ UNCHANGED process
    \/ \E n \in Names : Quiet /\ CorruptPayload(n) /\ UNCHANGED process

SpecFaults == Init /\ [][NextFaults]_vars

\* getDocumentation can be called: through the registered tool, or on a
\* constructed NpmDocService.
Callable == service.registered \/ service.state = "ready"

\* The process from its start: configuration, construction of the service,
\* requests of one caller for one name, and close().
LifeNames == {"a"}

InitProcess ==
    /\ store = [n \in Names |-> NoRow]
    /\ now = 0
    /\ cacheTtl = 0
    /\ call = [c \in Calls |-> IdleCall]
    /\ env \in { e \in Envs : e.NPM_REGISTRY_URL = "" }
    /\ instance = NoInstance
    /\ service = NoService
    /\ http = NoHttp
    /\ instanceLock = FALSE
    /\ holder = NoHolder
    /\ copy = NoCopy

NextLife ==
    \/ \E update \in Partials : Quiet /\ UpdateNpmDocServiceConfig(update)
    \/ \E outcome \in OpenOutcomes : NpmDocsTool(outcome)
    \/ \E config \in Partials, outcome \in OpenOutcomes :
           Construct(config, outcome)
    \/ \E c \in Requesters, n \in LifeNames, ff \in BOOLEAN :
           /\ Quiet /\ Callable
           /\ GetDocumentation(c, n, ff,
                               IF ff THEN "ok" ELSE Statement("select"))
           /\ UNCHANGED process
    \/ \E c \in Calls : Quiet /\ IsCachedNow(c) /\ UNCHANGED process
    \/ \E c \in Calls :
           /\ Quiet
           /\ AfterIsCached(c, IF call[c].isCached THEN Statement("select")
                               ELSE "ok")
           /\ UNCHANGED process
    \/ \E c \in Calls, n \in LifeNames : \E resp \in Responses(n) :
           Quiet /\ FetchRespond(c, resp) /\ UNCHANGED process
    \/ \E c \in Calls :
           Quiet /\ StoreFetched(c, Statement("insert")) /\ UNCHANGED process
    \/ \E c \in Others, outcome \in CloseOutcomes : Quiet /\ Close(c, outcome)
    \/ \E c \in Calls : Return(c) /\ UNCHANGED process
    \/ Quiet /\ Tick /\ UNCHANGED process

SpecLife == InitProcess /\ [][NextLife]_vars

\* The configuration alone, from the start of the process: calls of
\* getInstance, getNpmDocServiceConfig and updateNpmDocServiceConfig in any
\* order, before and after the service is constructed.
InitConfig ==
    /\ store = [n \in Names |-> NoRow]
    /\ now = 0
    /\ cacheTtl = 0
    /\ call = [c \in Calls |-> IdleCall]
    /\ env \in Envs
    /\ instance = NoInstance
    /\ service = NoService
    /\ http = NoHttp
    /\ instanceLock = FALSE
    /\ holder = NoHolder
    /\ copy = NoCopy

NextConfig ==
    \/ \E outcome \in ConstructorOutcomes : GetInstanceCall(outcome)
    \/ \E update \in Partials : UpdateNpmDocServiceConfig(update)
    \/ GetConfig
    \/ \E v \in TtlOverrides : MutateCopy(v)
    \/ \E outcome \in OpenOutcomes : NpmDocsTool(outcome)
    \/ \E config \in Partials, outcome \in OpenOutcomes :
           Construct(config, outcome)

SpecConfig == InitConfig /\ [][NextConfig]_vars

\* Two requests at a time for one name, every interleaving of their steps; a
\* finished call keeps its result until its caller takes it.
RaceNames == {"a"}

NextRace ==
    \/ \E c \in Calls, n \in RaceNames :
           GetDocumentation(c, n, FALSE, "ok") /\ UNCHANGED process
    \/ \E c \in Calls : IsCachedNow(c) /\ UNCHANGED process
    \/ \E c \in Calls : AfterIsCached(c, "ok") /\ UNCHANGED process
    \/ \E c \in Calls, n \in RaceNames : \E resp \in Responses(n) :
           FetchRespond(c, resp) /\ UNCHANGED process
    \/ \E c \in Calls : StoreFetched(c, "ok") /\ UNCHANGED process
    \/ \E c \in Calls : Return(c) /\ UNCHANGED process
    \/ Tick /\ UNCHANGED process

SpecRace == Init /\ [][NextRace]_vars

\* The registry client alone: one call of fetchFromNpmsIO for each answer
\* the registry can give.
Statuses == {200, 204, 400, 404, 500, 503}

\* Every metadata object over absent, empty and set fields.
UpstreamAll(n) ==
    { [MetaBase(n) EXCEPT !.name = nm, !.version = v, !.description = d,
                          !.readme = r, !.homepage = h, !.license = l] :
          nm \in {Undef, "", n}, v \in {Undef, "", "1.0.0"},
          d \in {Undef, "", "text"}, r \in {Undef, "", "# readme"},
          h \in {Undef, "https://home"}, l \in {Undef, "MIT"} }

ResponsesAll(n) ==
    { [kind |-> "response", status |-> s, hasMeta |-> TRUE, metadata |-> m] :
          s \in Statuses \cap 200..299, m \in UpstreamAll(n) }
    \cup { [kind |-> "response", status |-> s, hasMeta |-> FALSE] :
               s \in Statuses }
    \cup { [kind |-> "noresponse", code |-> c] :
               c \in {"ECONNABORTED", "ECONNREFUSED"} }
    \cup { [kind |-> "other"] }

\* The names fetchFromNpmsIO is called with: the scoped name has characters
\* that encodeURIComponent escapes.
FetchNames == Names \cup {"@s/p"}

\* encodeURIComponent on FetchNames: "@" becomes %40 and "/" becomes %2F,
\* letters are kept.
EncodeURIComponent(n) == IF n = "@s/p" THEN "%40s%2Fp" ELSE n

\* private readonly npmsApiBaseUrl
npmsApiBaseUrl == "https://api.npms.io/v2"

\* Mutant of RequestUrl: the base is the npmRegistry of the configuration.
RequestUrl_fromConfig(n) ==
    [ base |-> GetNpmDocServiceConfig(instance).npmRegistry,
      path |-> << "package", EncodeURIComponent(n) >> ]

\* `${this.npmsApiBaseUrl}/package/${encodeURIComponent(packageName)}`
RequestUrl(n) ==
    [ base |-> npmsApiBaseUrl,
      path |-> << "package", EncodeURIComponent(n) >> ]

InitFetch ==
    /\ store = [n \in Names |-> NoRow]
    /\ now = 0
    /\ cacheTtl \in 1..MaxTtl
    /\ call = [c \in Calls |-> IdleCall]
    /\ \E url \in EnvRegistries :
           env = [ NPM_CACHE_TTL |-> << Digits[cacheTtl + 1] >>,
                   NPM_REGISTRY_URL |-> url ]
    /\ instance = GetInstance(NoInstance, env)
    /\ service = [NoService EXCEPT !.state = "ready", !.dbOpen = TRUE,
                                   !.registered = TRUE]
    /\ instanceLock = FALSE
    /\ holder = Got(NoHolder, NoInstance)
    /\ copy = NoCopy
    /\ \E n \in FetchNames : \E resp \in ResponsesAll(n) :
           http = [ pc |-> "pending", packageName |-> n,
                    url |-> RequestUrl(n), response |-> resp,
                    outcome |-> NotFetched ]

\* The HTTP GET of the call ends with its response; fetchFromNpmsIO returns
\* or throws.
FetchAlone ==
    /\ http.pc = "pending"
    /\ http' = [http EXCEPT !.pc = "ended",
                            !.outcome = FetchFromNpmsIO(http.response)]
    /\ UNCHANGED << store, now, cacheTtl, call, env, instance, service,
                    instanceLock, holder, copy >>

NextFetch == FetchAlone

SpecFetch == InitFetch /\ [][NextFetch]_vars

\* The last answer to a GET, kept for the properties.
Answered(n, resp) ==
    [ pc |-> "ended", packageName |-> n, url |-> RequestUrl(n),
      response |-> resp, outcome |-> FetchFromNpmsIO(resp) ]

\* The next step of the getDocumentation that caller c is running: the
\* continuation after an await, or the end of its GET.
Continue(c) ==
    \/ IsCachedNow(c) /\ UNCHANGED process
    \/ AfterIsCached(c, "ok") /\ UNCHANGED process
    \/ \E resp \in Responses(call[c].packageName) :
           /\ FetchRespond(c, resp)
           /\ http' = Answered(call[c].packageName, resp)
           /\ UNCHANGED << env, instance, service, instanceLock, holder, copy >>
    \/ StoreFetched(c, "ok") /\ UNCHANGED process

\* Requests of two callers for one name, forced or not, with every statement
\* on the table returning.
NextLive ==
    \/ \E c \in Calls, n \in RaceNames, ff \in BOOLEAN :
           GetDocumentation(c, n, ff, "ok") /\ UNCHANGED process
    \/ \E c \in Calls : Continue(c)
    \/ \E c \in Calls : Return(c) /\ UNCHANGED process
    \/ Tick /\ UNCHANGED process

\* The event loop runs the continuation of every settled promise, the
\* statements of better-sqlite3 return, and axios settles the GET with a
\* response, an error, or at the latest its timeout of 15 s: a call that can
\* take its next step takes it.  Nothing obliges a caller to start a request
\* or the clock to advance.
SpecLive ==
    /\ Init
    /\ [][NextLive]_vars
    /\ \A c \in Calls : WF_vars(Continue(c))

\* ------------------------------------------------------------ properties
\* Deep equality of two documentation objects; a property that is undefined
\* and a property that is absent are the same.
DeepEqual(a, b) ==
    \A k \in (DOMAIN a) \cup (DOMAIN b) : Field(a, k) = Field(b, k)

\* What a get of n returns when its statements succeed.
Stored(st, n) == CacheGet(st, n, "ok").entry

\* Caller c takes a step of its getDocumentation/isDocCached that runs a get.
GetStep(c) ==
    \/ call[c].pc = "idle" /\ call'[c].pc = "isCachedNow"
    \/ call[c].pc = "afterIsCached" /\ call[c].isCached
                                     /\ call'[c].pc # "afterIsCached"

\* Caller c takes the step of getDocumentation that runs set.
SetStep(c) == call[c].pc = "store" /\ call'[c].pc = "done"

\* C1: a getDocumentation(name, false) that began on a valid row which
\* does not change and stays unexpired never calls the registry,
\* never writes the table, and returns the documentation of that row.
C1_CacheHitShortCircuit ==
    \A c \in Calls :
        ( /\ call[c].op = "getDocumentation"
          /\ ~call[c].forceFresh
          /\ call[c].undisturbed
          /\ RowValid(store[call[c].packageName], now) )
        => /\ call[c].fetches = 0
           /\ call[c].sets = 0
           /\ call[c].writes = {}
           /\ call[c].pc \in {"isCachedNow", "afterIsCached", "done"}
           /\ call[c].pc = "done" =>
                  call[c].result =
                      DocResult(Parse(store[call[c].packageName].documentation))

\* A hit served from a row that has aged since it was written.
C1_Witness ==
    \E c \in Calls :
        /\ call[c].op = "getDocumentation" /\ call[c].pc = "done"
        /\ ~call[c].forceFresh /\ call[c].undisturbed
        /\ RowValid(store[call[c].packageName], now)
        /\ now > store[call[c].packageName].fetched_at
        /\ call[c].result.kind = "doc"

\* C2: getDocumentation(name, true) reads nothing from the cache and calls
\* the registry at once, whatever row is stored; when the fetch has succeeded
\* its set leaves a row under name that reads back as the fetched record.
C2_Bypass ==
    [][ \A c \in Calls :
          /\ ( /\ call[c].pc = "idle"
               /\ call'[c].op = "getDocumentation"
               /\ call'[c].forceFresh )
             => /\ call'[c].pc = "fetching"
                /\ call'[c].fetches = 1
                /\ call'[c].reads = 0
                /\ store' = store
          /\ ( call[c].forceFresh /\ SetStep(c) )
             => /\ call'[c].reads = 0
                /\ ~Stored(store', call[c].packageName).isNull
                /\ DeepEqual(Stored(store', call[c].packageName).documentation,
                             call[c].fetched.doc)
                /\ store'[call[c].packageName].fetched_at = now
                /\ call'[c].result = DocResult(call[c].fetched.doc)
      ]_vars

\* A forced fetch has replaced a row that another call had read as valid:
\* the other call still holds the old, unexpired entry with another record.
C2_Witness ==
    \E c, o \in Calls :
        /\ call[c].op = "getDocumentation" /\ call[c].forceFresh
        /\ call[c].pc = "done" /\ call[c].result.kind = "doc"
        /\ call[o].pc = "isCachedNow"
        /\ call[o].packageName = call[c].packageName
        /\ ~call[o].cacheEntry.isNull
        /\ now < call[o].cacheEntry.fetchedAt + call[o].cacheEntry.ttl * 1000
        /\ ~Stored(store, call[c].packageName).isNull
        /\ DeepEqual(Stored(store, call[c].packageName).documentation,
                     call[c].result.doc)
        /\ ~DeepEqual(call[o].cacheEntry.documentation, call[c].result.doc)

C4_FailedFetchWritesNothing ==
    \A c \in Calls :
        ( /\ call[c].op = "getDocumentation" /\ call[c].pc = "done"
          /\ call[c].result.kind = "error"
          /\ call[c].result.error \in {"NotFoundError", "NetworkError"} )
        => call[c].writes = {}

\* C4, amended: a getDocumentation that ended in an error has set no row; the
\* only rows it has changed are unparsable rows of its own name, deleted by
\* its cache read, which it runs only without bypass.
C4_FailedFetchOnlyHeals ==
    \A c \in Calls :
        ( /\ call[c].op = "getDocumentation" /\ call[c].pc = "done"
          /\ call[c].result.kind = "error" )
        => /\ call[c].sets = 0
           /\ \A w \in call[c].writes :
                  /\ w.op = "delete"
                  /\ w.key = call[c].packageName
                  /\ w.corrupt
                  /\ ~call[c].forceFresh

\* A forced fetch failed and the still-valid row of its name is in place.
C4_Witness ==
    \E c \in Calls :
        /\ call[c].op = "getDocumentation" /\ call[c].pc = "done"
        /\ call[c].forceFresh
        /\ call[c].result = ErrorResult("NetworkError")
        /\ call[c].writes = {}
        /\ RowValid(store[call[c].packageName], now)

\* C5: a getDocumentation whose set failed returned the fetched record.
C5_WriteFailureTolerated ==
    \A c \in Calls :
        ( call[c].op = "getDocumentation" /\ call[c].pc = "done"
          /\ call[c].setFailed )
        => /\ call[c].fetched # NotFetched
           /\ call[c].fetched.ok
           /\ call[c].result = DocResult(call[c].fetched.doc)

\* A set failed, and the table does not hold the fetched record.
C5_Witness ==
    \E c \in Calls :
        /\ call[c].op = "getDocumentation" /\ call[c].pc = "done"
        /\ call[c].setFailed
        /\ call[c].result.kind = "doc"
        /\ ~store[call[c].packageName].present

\* C6: a getDocumentation(name, false) one of whose cache reads failed takes
\* the read as a miss and calls the registry; it ends as the fetch ends.
C6_ReadFailureIsMiss ==
    \A c \in Calls :
        ( call[c].op = "getDocumentation" /\ call[c].readFailed )
        => /\ ~call[c].forceFresh
           /\ call[c].pc = "isCachedNow" => call[c].cacheEntry.isNull
           /\ call[c].pc = "afterIsCached" => ~call[c].isCached
           /\ call[c].pc \in {"fetching", "store", "done"} => call[c].fetches = 1
           /\ call[c].pc = "done" =>
                  /\ call[c].fetched # NotFetched
                  /\ call[c].result =
                         IF call[c].fetched.ok
                         THEN DocResult(call[c].fetched.doc)
                         ELSE ErrorResult(call[c].fetched.error)

\* The read of a valid row failed and the call returned a fetched record.
C6_Witness ==
    \E c \in Calls :
        /\ call[c].op = "getDocumentation" /\ call[c].pc = "done"
        /\ call[c].readFailed
        /\ call[c].result.kind = "doc"
        /\ call[c].reads = 2

\* C7: right after a successful set(name, d, t) a get(name) returns an entry
\* with packageName = name, documentation deep-equal to d and ttl = t > 0.
C7_CacheRoundTrip ==
    [][ \A c \in Calls :
          ( SetStep(c) /\ ~call'[c].setFailed )
          => LET n == call[c].packageName
                 e == Stored(store', n)
             IN  /\ ~e.isNull
                 /\ e.packageName = n
                 /\ DeepEqual(e.documentation, call[c].fetched.doc)
                 /\ e.ttl = cacheTtl
                 /\ cacheTtl > 0
      ]_vars

\* A record with undefined properties was set: the stored text lacks them.
C7_Witness ==
    \E c \in Calls :
        /\ call[c].pc = "done" /\ call[c].sets = 1 /\ ~call[c].setFailed
        /\ call[c].fetched.doc.homepage = Undef
        /\ call[c].fetched.doc.description = ""
        /\ store[call[c].packageName].present
        /\ Parsable(store[call[c].packageName].documentation)
        /\ "homepage" \notin DOMAIN Parse(store[call[c].packageName].documentation)
        /\ store[call[c].packageName].ttl = cacheTtl

\* C8: when isCached(name) compares, and the table still holds what its get
\* read, the answer is true exactly if the row exists, is parsable and
\* now < fetched_at + ttl * 1000; fetched_at of a row changes only in a set,
\* which stamps it with the time of the set.
C8_ValidityBoundary ==
    [][ /\ \A c \in Calls :
             ( /\ call[c].pc = "isCachedNow"
               /\ call'[c].pc # "isCachedNow"
               /\ Stored(store, call[c].packageName) = call[c].cacheEntry )
             => call'[c].isCached = RowValid(store[call[c].packageName], now)
        /\ \A n \in Names :
             ( /\ store'[n].present
               /\ ~store[n].present \/ store[n].fetched_at # store'[n].fetched_at )
             => /\ store'[n].fetched_at = now
                /\ \E c \in Calls : SetStep(c) /\ call[c].packageName = n
      ]_vars

\* isDocCached answered false for a stored row whose age equals its ttl.
C8_Witness ==
    \E c \in Calls :
        /\ call[c].op = "isDocCached" /\ call[c].pc = "done"
        /\ call[c].result = BoolResult(FALSE)
        /\ ~call[c].cacheEntry.isNull
        /\ Stored(store, call[c].packageName) = call[c].cacheEntry
        /\ now = call[c].cacheEntry.fetchedAt + call[c].cacheEntry.ttl * 1000

\* C9: a get of a key whose stored text is unparsable returns absent without
\* raising and deletes the row: a get that follows returns absent as well,
\* and the rows of the other keys are as before.
C9_CorruptionSelfHeal ==
    [][ \A c \in Calls :
          LET n == call'[c].packageName
          IN  ( /\ GetStep(c)
                /\ store[n].present
                /\ ~Parsable(store[n].documentation) )
              => /\ store'[n] = NoRow
                 /\ \A m \in Names \ {n} : store'[m] = store[m]
                 /\ Stored(store', n).isNull
                 /\ call'[c].result.kind # "error"
                 /\ ~call'[c].readFailed
                 /\ IF call[c].pc = "idle" THEN call'[c].cacheEntry.isNull
                    ELSE call'[c].pc = "fetching"
      ]_vars

\* A call has deleted the unparsable row of its name; another key has a row.
C9_Witness ==
    \E c \in Calls :
        /\ \E w \in call[c].writes : w.op = "delete" /\ w.corrupt
        /\ call[c].pc = "isCachedNow"
        /\ store[call[c].packageName] = NoRow
        /\ \E m \in Names : store[m].present

\* C10: an argument-less clearCache that succeeds leaves no row, so that
\* isCached is false for every name; a name has a row again only through the
\* set of a getDocumentation that fetched it, and until then isDocCached of
\* the name reads no entry and answers false.
C10_FullInvalidation ==
    [][ /\ \A c \in Calls :
             ( /\ call[c].pc = "idle"
               /\ call'[c].op = "clearCache"
               /\ call'[c].packageName = NoArg
               /\ call'[c].result = VoidResult )
             => \A n \in Names :
                    /\ ~store'[n].present
                    /\ ~IsCachedOf(Stored(store', n), now')
        /\ \A n \in Names :
             ( ~store[n].present /\ store'[n].present )
             => \E c \in Calls :
                    /\ SetStep(c)
                    /\ call[c].op = "getDocumentation"
                    /\ call[c].packageName = n
                    /\ call[c].fetched.ok
        /\ \A c \in Calls :
             /\ ( /\ call[c].pc = "idle"
                  /\ call'[c].op = "isDocCached"
                  /\ ~store[call'[c].packageName].present )
                => call'[c].cacheEntry.isNull
             /\ ( /\ call[c].op = "isDocCached"
                  /\ call[c].pc = "isCachedNow"
                  /\ call[c].cacheEntry.isNull
                  /\ call'[c].pc = "done" )
                => call'[c].result = BoolResult(FALSE)
      ]_vars

\* clearCache() has emptied the table while a getDocumentation holds the
\* answer "cached" that isCached gave it for the row that was there.
C10_Witness ==
    \E c, o \in Calls :
        /\ call[c].op = "clearCache" /\ call[c].pc = "done"
        /\ call[c].packageName = NoArg
        /\ call[c].result = VoidResult
        /\ call[o].pc = "afterIsCached" /\ call[o].isCached
        /\ \A n \in Names : ~store[n].present

\* Caller c runs clearCache, which returns or throws in the same step.
ClearStep(c) == call[c].pc = "idle" /\ call'[c].op = "clearCache"

\* C11: clearCache(name) that succeeds, for any string name, deletes the row
\* stored under name and leaves the row of every other key as it was; the
\* whole table is emptied only by clearCache() without an argument.
C11_SingleKeyInvalidation ==
    [][ \A c \in Calls :
          ( ClearStep(c) /\ call'[c].result = VoidResult )
          => IF call'[c].packageName = NoArg
             THEN \A n \in Names : store'[n] = NoRow
             ELSE \A n \in Names :
                      store'[n] = IF n = call'[c].packageName THEN NoRow
                                  ELSE store[n]
      ]_vars

\* C12: a get whose statement fails returns no entry and does not raise, so
\* isCached answers false; a set whose statement fails throws its CacheError
\* to getDocumentation, its caller, and leaves the table as it was.
C12_StoreFailures ==
    [][ \A c \in Calls :
          /\ ( GetStep(c) /\ call'[c].readFailed /\ ~call[c].readFailed )
             => /\ call'[c].result.kind # "error"
                /\ call[c].pc = "idle" => call'[c].cacheEntry.isNull
                /\ call[c].pc = "afterIsCached" => call'[c].pc = "fetching"
          /\ ( /\ call[c].pc = "isCachedNow" /\ call[c].readFailed
               /\ call'[c].pc # "isCachedNow" )
             => /\ ~call'[c].isCached
                /\ call[c].op = "isDocCached"
                       => call'[c].result = BoolResult(FALSE)
          /\ ( SetStep(c) /\ call'[c].setFailed )
             => /\ store' = store
                /\ CacheSet(store, call[c].packageName, call[c].fetched.doc,
                            cacheTtl, now, "insert").threw
      ]_vars

\* A set failed and the row stored before is in place, while the read of that
\* row by an isDocCached has failed and returned no entry.
C12_Witness ==
    \E c, o \in Calls :
        /\ call[c].op = "getDocumentation" /\ call[c].pc = "done"
        /\ call[c].setFailed
        /\ store[call[c].packageName].present
        /\ call[o].op = "isDocCached" /\ call[o].pc = "isCachedNow"
        /\ call[o].packageName = call[c].packageName
        /\ call[o].readFailed /\ call[o].cacheEntry.isNull

\* C13, as claimed: no clearCache ends in an error, whatever happens to its
\* statement.
C13_InvalidateNeverRaises ==
    \A c \in Calls :
        call[c].op = "clearCache" => call[c].result = VoidResult

\* C13, amended: a clearCache whose statement fails changes no row and ends
\* in a CacheError, which NpmDocService.clearCache passes on to its caller; a
\* clearCache that returns has deleted the rows its argument names.
C13_InvalidateFailsUnchanged ==
    [][ \A c \in Calls :
          ClearStep(c)
          => /\ call'[c].pc = "done"
             /\ call'[c].result \in {VoidResult, ErrorResult("CacheError")}
             /\ call'[c].result = ErrorResult("CacheError")
                    => store' = store
             /\ call'[c].result = VoidResult
                    => \A n \in Names :
                           store'[n] \in {store[n], NoRow}
      ]_vars

\* A full wipe has failed: it ended in a CacheError and both rows are there.
C13_Witness ==
    \E c \in Calls :
        /\ call[c].op = "clearCache" /\ call[c].pc = "done"
        /\ call[c].packageName = NoArg
        /\ call[c].result = ErrorResult("CacheError")
        /\ \A n \in Names : store[n].present

\* Caller c runs close(), which returns in the same step.
CloseStep(c) == call[c].pc = "idle" /\ call'[c].op = "close"

\* C14: close() never raises and touches neither the table nor the
\* configuration; on an open handle whose db.close() succeeds it releases the
\* handle; on a released handle it changes nothing and only logs a warning.
C14_CloseIdempotent ==
    [][ \A c \in Calls :
          CloseStep(c)
          => /\ call'[c].pc = "done"
             /\ call'[c].result = VoidResult
             /\ store' = store /\ cacheTtl' = cacheTtl /\ instance' = instance
             /\ ~service.dbOpen
                    => /\ service'.lastClose = "already"
                       /\ [service' EXCEPT !.lastClose = service.lastClose]
                              = service
             /\ service.dbOpen
                    => /\ service'.lastClose \in {"closed", "failed"}
                       /\ service'.lastClose = "closed" => ~service'.dbOpen
                       /\ service'.lastClose = "failed" => service'.dbOpen
      ]_vars

\* close() has returned on a handle that an earlier close() released; the row
\* written before is still in the table.
C14_Witness ==
    \E c \in Calls :
        /\ call[c].op = "close" /\ call[c].pc = "done"
        /\ call[c].result = VoidResult
        /\ ~service.dbOpen /\ service.lastClose = "already"
        /\ \E n \in Names : store[n].present

\* C15: when the database cannot be opened or its table cannot be created,
\* the constructors end in a CacheError, there is no NpmDocService, the tool
\* is not registered and no call ever runs; the tool is registered, and calls
\* run, only with a service whose database was opened.
C15_InitFailureFatal ==
    /\ service.state = "failed"
           => /\ service.error = "CacheError"
              /\ ~service.registered
              /\ ~service.dbOpen
              /\ \A c \in Calls : call[c] = IdleCall
    /\ service.registered => service.state = "ready"
    /\ service.state = "ready" => service.error = "none"
    /\ \A c \in Calls : call[c].op # "none" => service.state = "ready"

\* The table could not be created: the configuration holder exists, the
\* service does not, and the tool is not registered.
C15_Witness ==
    /\ service.state = "failed"
    /\ service.error = "CacheError"
    /\ instance.created
    /\ ~service.registered
    /\ \A c \in Calls : call[c] = IdleCall

\* C16: two getDocumentation(name, false) for the same name run without
\* single-flight: every set that executes leaves under name exactly the
\* record, time and ttl of its own call, whatever another call has written
\* before, so the last set decides the row; rows change in no other way, and
\* every call that fetched returns the record of its own fetch.
C16_LastWriteWins ==
    [][ /\ \A c \in Calls :
             /\ SetStep(c)
                => LET n == call[c].packageName
                   IN  /\ store'[n] =
                              Row(Stringify(call[c].fetched.doc), now, cacheTtl)
                       /\ DeepEqual(Stored(store', n).documentation,
                                    call[c].fetched.doc)
                       /\ \A m \in Names \ {n} : store'[m] = store[m]
             /\ ( call'[c].pc = "done" /\ call'[c].fetches = 1 )
                => call'[c].result =
                       IF call'[c].fetched.ok
                       THEN DocResult(call'[c].fetched.doc)
                       ELSE ErrorResult(call'[c].fetched.error)
        /\ \A n \in Names :
             store'[n] # store[n]
             => \E c \in Calls : SetStep(c) /\ call[c].packageName = n
      ]_vars

\* Both calls missed, both fetched and both wrote; each holds the record of
\* its own fetch, the two records differ, and the row is the one of the call
\* whose set ran last.
C16_Witness ==
    \E c, o \in Calls :
        /\ c # o
        /\ call[c].packageName = call[o].packageName
        /\ \A x \in {c, o} :
               /\ call[x].op = "getDocumentation" /\ call[x].pc = "done"
               /\ call[x].cacheEntry.isNull /\ call[x].reads = 1
               /\ call[x].fetches = 1 /\ call[x].sets = 1
               /\ call[x].result = DocResult(call[x].fetched.doc)
        /\ ~DeepEqual(call[c].result.doc, call[o].result.doc)
        /\ DeepEqual(Stored(store, call[c].packageName).documentation,
                     call[o].result.doc)

\* C17: whatever NPM_CACHE_TTL, updateNpmDocServiceConfig and the override
\* of the NpmDocService constructor were given, the cacheTtl of the holder and
\* of the service is positive, and so is the ttl of every row written.
C17_TtlAlwaysPositive ==
    /\ instance.created => instance.npmDocService.cacheTtl > 0
    /\ service.state = "ready" => cacheTtl > 0
    /\ \A n \in Names : store[n].present => store[n].ttl > 0

\* The answer is an HTTP response with a status 2xx.
Success(r) == r.kind = "response" /\ r.status \in 200..299

\* The answer is a 2xx response without metadata or without a name in it.
NoPackage(r) ==
    Success(r) /\ (~r.hasMeta \/ r.metadata.name \in {Undef, ""})

\* C18: every answer of the registry is classified: 404, and a 2xx answer
\* without metadata or name, throw NotFoundError and nothing else does; every
\* other status outside 2xx, and a request that got no response (a timeout
\* is one), throw NetworkError and nothing else does; a record is returned
\* for exactly the 2xx answers with a named metadata object; what is left (a
\* failure that is neither) throws the generic Error.
C18_OutcomeClassification ==
    http.pc = "ended"
    => LET r == http.response
           o == http.outcome
           notFound == \/ r.kind = "response" /\ r.status = 404
                       \/ NoPackage(r)
           network == \/ r.kind = "response" /\ ~Success(r) /\ r.status # 404
                      \/ r.kind = "noresponse"
       IN  /\ o # NotFetched
           /\ o.ok \/ o.error \in {"NotFoundError", "NetworkError", "Error"}
           /\ notFound <=> o = Thrown("NotFoundError")
           /\ network <=> o = Thrown("NetworkError")
           /\ o.ok <=> Success(r) /\ ~NoPackage(r)
           /\ o = Thrown("Error") <=> r.kind = "other"

\* The registry answered 503 and the call threw NetworkError.
C18_Witness ==
    /\ http.pc = "ended"
    /\ http.response.kind = "response" /\ http.response.status = 503
    /\ http.outcome = Thrown("NetworkError")

\* The optional fields that fetchFromNpmsIO copies from the metadata.
Optional ==
    { "homepage", "repository", "author", "license", "keywords",
      "dependencies", "devDependencies" }

\* C19: a record that fetchFromNpmsIO returns has the non-empty name of the
\* metadata, a non-empty version ("unknown" when the metadata has none), a
\* description that is a string (empty when the metadata has none), the
\* readme text as readmeContent, the readme marker only together with a
\* readmeContent, and every optional field as in the metadata, absent when
\* absent there.
C19_Normalization ==
    ( http.pc = "ended" /\ http.outcome.ok )
    => LET m == http.response.metadata
           d == http.outcome.doc
       IN  /\ d.name = m.name /\ d.name \notin {Undef, ""}
           /\ d.version \notin {Undef, ""}
           /\ d.version = IF m.version \in {Undef, ""} THEN "unknown"
                          ELSE m.version
           /\ d.description # Undef
           /\ d.description = IF m.description = Undef THEN ""
                              ELSE m.description
           /\ d.readmeContent = m.readme
           /\ d.readme # Undef => d.readmeContent \notin {Undef, ""}
           /\ d.readmeContent \in {Undef, ""} => d.readme = Undef
           /\ \A k \in Optional : d[k] = m[k]
           /\ DOMAIN d = { DocKeys[i] : i \in 1..Len(DocKeys) }

\* A record was returned for metadata without version, description and
\* homepage: it says version "unknown" and has no readme marker.
C19_Witness ==
    /\ http.pc = "ended" /\ http.outcome.ok
    /\ http.response.metadata.version = Undef
    /\ http.response.metadata.description = Undef
    /\ http.response.metadata.homepage = Undef
    /\ http.response.metadata.readme = ""
    /\ http.outcome.doc.version = "unknown"
    /\ http.outcome.doc.homepage = Undef
    /\ http.outcome.doc.readme = Undef

\* Caller c takes the step of getDocumentation that follows an isCached
\* which answered true.
SecondGetStep(c) ==
    /\ call[c].pc = "afterIsCached" /\ call[c].isCached
    /\ call'[c].pc # "afterIsCached"

\* C20: when isCached has answered true and the get that follows finds no
\* entry (the row was deleted in between, or is unparsable by then),
\* getDocumentation(name, false) calls the registry; such a call returns the
\* record it fetched or throws the error of the fetch, and no getDocumentation
\* ends with anything but a record or an error.
C20_RaceFallsThrough ==
    [][ \A c \in Calls :
          /\ ( SecondGetStep(c) /\ Stored(store, call[c].packageName).isNull )
             => /\ call'[c].pc = "fetching"
                /\ call'[c].fetches = 1
                /\ call'[c].result = NoResult
          /\ ( SecondGetStep(c) /\ ~Stored(store, call[c].packageName).isNull )
             => /\ call'[c].pc = "done"
                /\ call'[c].fetches = 0
                /\ call'[c].result =
                       DocResult(Stored(store, call[c].packageName).documentation)
          /\ ( /\ call[c].op = "getDocumentation" /\ call[c].isCached
               /\ call[c].fetches = 1 /\ call'[c].pc = "done" )
             => /\ call'[c].fetched # NotFetched
                /\ call'[c].result =
                       IF call'[c].fetched.ok
                       THEN DocResult(call'[c].fetched.doc)
                       ELSE ErrorResult(call'[c].fetched.error)
          /\ ( call'[c].op = "getDocumentation" /\ call'[c].pc = "done" )
             => call'[c].result.kind \in {"doc", "error"}
      ]_vars

\* isCached answered true, the second get found nothing, and the call has
\* returned the record it then fetched.
C20_Witness ==
    \E c \in Calls :
        /\ call[c].op = "getDocumentation" /\ call[c].pc = "done"
        /\ ~call[c].forceFresh /\ call[c].isCached
        /\ call[c].reads = 2 /\ call[c].fetches = 1
        /\ call[c].fetched # NotFetched /\ call[c].fetched.ok
        /\ call[c].result = DocResult(call[c].fetched.doc)

\* Caller c takes the step of getDocumentation that calls fetchFromNpmsIO.
FetchStep(c) ==
    /\ call[c].pc \in {"idle", "afterIsCached", "fetching"}
    /\ call'[c].fetches > call[c].fetches

\* C21: a getDocumentation calls fetchFromNpmsIO at most once and
\* CacheService.set at most once; none of its cache reads comes after the
\* call of the registry; set runs only after the registry call, and only
\* when that call returned a record; a failed registry call ends the request
\* without a set.
C21_BoundedExternalCalls ==
    [][\A c \in Calls :
           /\ call'[c].fetches <= 1 /\ call'[c].sets <= 1 /\ call'[c].reads <= 2
           /\ call'[c].reads > call[c].reads =>
                  call[c].fetches = 0 /\ call[c].fetched = NotFetched
           /\ FetchStep(c) =>
                  /\ call[c].fetches = 0 /\ call[c].sets = 0
                  /\ call'[c].reads = call[c].reads
                         + (IF call[c].pc = "afterIsCached" /\ call[c].isCached
                            THEN 1 ELSE 0)
           /\ call'[c].sets > call[c].sets =>
                  /\ call[c].sets = 0 /\ call[c].fetches = 1
                  /\ call[c].fetched # NotFetched /\ call[c].fetched.ok
                  /\ call'[c].reads = call[c].reads
           /\ (call[c].pc = "fetching" /\ call'[c].pc = "done") =>
                  /\ ~call'[c].fetched.ok
                  /\ call'[c].sets = 0
                  /\ call'[c].result.kind = "error"]_vars

\* A request that read the cache twice, then called the registry once and
\* ran its one set, which failed.
C21_Witness ==
    \E c \in Calls :
        /\ call[c].pc = "done" /\ call[c].op = "getDocumentation"
        /\ call[c].reads = 2 /\ call[c].fetches = 1 /\ call[c].sets = 1
        /\ call[c].setFailed

\* The records a successful fetchFromNpmsIO(n) can return.
FetchedFor(n) ==
    { FetchFromNpmsIO(r).doc : r \in { q \in Responses(n) : FetchFromNpmsIO(q).ok } }

\* The row of n is what a set of the service wrote: the text of a record
\* fetched for n, the TTL of the service, a time that has come.
ServiceRow(row, n) ==
    /\ row.ttl = cacheTtl
    /\ row.fetched_at <= now
    /\ \E d \in FetchedFor(n) :
           /\ row.documentation = Stringify(d)
           /\ DeepEqual(Stored(store, n).documentation, d)

\* C22: when only the operations of the service write the table, every
\* row is stored under the name a request asked for, holds a record a
\* successful fetch for that name returned, and has the cacheTtl of the
\* service as its ttl; a getDocumentation whose fetch and set succeeded
\* leaves such a row under the requested name with fetched_at the time of
\* the write, and a set writes no row of another name.
C22_EntryLifecycle ==
    [][/\ \A n \in Names :
              store'[n].present =>
                  /\ store'[n].ttl = cacheTtl'
                  /\ store'[n].fetched_at <= now'
                  /\ \E d \in FetchedFor(n) :
                         store'[n].documentation = Stringify(d)
                  /\ store'[n] # store[n] =>
                         \E c \in Calls :
                             SetStep(c) /\ call[c].packageName = n
       /\ \A c \in Calls :
              SetStep(c) /\ ~call'[c].setFailed =>
                  /\ store'[call[c].packageName] =
                         Row(Stringify(call[c].fetched.doc), now, cacheTtl)
                  /\ call[c].fetched.doc \in FetchedFor(call[c].packageName)
                  /\ call'[c].result = DocResult(call[c].fetched.doc)
                  /\ \A m \in Names \ {call[c].packageName} :
                         store'[m] = store[m]]_vars

\* A finished request overwrote an older row: the row under its name holds
\* its record with the time of its write, while the other name keeps a row
\* written earlier.
C22_Witness ==
    \E c \in Calls :
        /\ call[c].pc = "done" /\ call[c].op = "getDocumentation"
        /\ call[c].sets = 1 /\ ~call[c].setFailed
        /\ \E w \in call[c].writes : w.op = "set"
        /\ ServiceRow(store[call[c].packageName], call[c].packageName)
        /\ store[call[c].packageName].fetched_at = now /\ now > 0
        /\ \E m \in Names \ {call[c].packageName} :
               store[m].present /\ store[m].fetched_at < now

\* Caller c takes the rest of isCached: the comparison with the clock.
CheckStep(c) == call[c].pc = "isCachedNow" /\ call'[c].pc # "isCachedNow"

\* Row `row` is stored, readable and expired at time t.
RowExpired(row, t) ==
    /\ row.present
    /\ Parsable(row.documentation)
    /\ t >= row.fetched_at + row.ttl * 1000

\* C23: when the entry of the name is expired at the validity check of a
\* getDocumentation(name, false), be it the entry isCached examines or
\* the row stored at that moment, isCached answers false; the request
\* then calls the registry without reading the cache again, a successful
\* fetch and set leave a row that is valid, with fetched_at the time of the
\* write, and what the request returns is the fetched record, never the
\* expired one.
C23_StaleRefreshed ==
    [][\A c \in Calls :
           LET n == call[c].packageName
               miss == /\ call[c].op = "getDocumentation"
                       /\ ~call[c].forceFresh
                       /\ ~call[c].isCached
           IN  /\ ( /\ CheckStep(c)
                    /\ \/ RowExpired(store[n], now)
                       \/ /\ ~call[c].cacheEntry.isNull
                          /\ now >= call[c].cacheEntry.fetchedAt
                                    + call[c].cacheEntry.ttl * 1000 )
                   => ~call'[c].isCached
               /\ (miss /\ call[c].pc = "afterIsCached"
                        /\ call'[c].pc # "afterIsCached") =>
                      /\ call'[c].pc = "fetching"
                      /\ call'[c].fetches = 1
                      /\ call'[c].reads = 1
                      /\ call'[c].result = NoResult
                      /\ store' = store
               /\ (miss /\ SetStep(c) /\ ~call'[c].setFailed) =>
                      /\ RowValid(store'[n], now')
                      /\ store'[n].fetched_at = now
                      /\ DeepEqual(Stored(store', n).documentation,
                                   call[c].fetched.doc)
               /\ (miss /\ call[c].pc # "done" /\ call'[c].pc = "done") =>
                      /\ call'[c].reads = 1
                      /\ call'[c].fetched # NotFetched
                      /\ call'[c].result =
                             IF call'[c].fetched.ok
                             THEN DocResult(call'[c].fetched.doc)
                             ELSE ErrorResult(call'[c].fetched.error)]_vars

\* A request found an expired entry and replaced it: the row of its name is
\* valid again and younger than the entry the request examined.
C23_Witness ==
    \E c \in Calls :
        /\ call[c].pc = "done" /\ call[c].op = "getDocumentation"
        /\ ~call[c].forceFresh /\ ~call[c].isCached
        /\ ~call[c].cacheEntry.isNull
        /\ call[c].sets = 1 /\ ~call[c].setFailed
        /\ RowValid(store[call[c].packageName], now)
        /\ store[call[c].packageName].fetched_at
               >= call[c].cacheEntry.fetchedAt
                  + call[c].cacheEntry.ttl * 1000

\* C24: reads do not sweep.  A step in which time passes changes no
\* row; a step that runs a get (the get of isCached included) changes
\* nothing but the row of the requested name, and that row only by deleting
\* it when its text is unparsable; the comparison of isCached changes no
\* row.  An expired row is still returned by get while isCached answers
\* false for it, and it stays stored until a set or a clearCache replaces or
\* deletes it.
C24_ReadsDoNotSweep ==
    [][/\ now' # now => store' = store
       /\ \A c \in Calls :
              LET n == call[c].packageName
                  m == call'[c].packageName
              IN  /\ GetStep(c) =>
                      /\ \A k \in Names \ {m} : store'[k] = store[k]
                      /\ store'[m] # store[m] =>
                             /\ store[m].present
                             /\ ~Parsable(store[m].documentation)
                             /\ store'[m] = NoRow
                      /\ RowExpired(store[m], now) =>
                             /\ store' = store
                             /\ ~Stored(store', m).isNull
                             /\ call[c].pc = "idle" =>
                                    call'[c].cacheEntry = Entry(m, store[m])
                  /\ CheckStep(c) =>
                      /\ store' = store
                      /\ ( /\ ~call[c].cacheEntry.isNull
                           /\ RowExpired(store[n], now)
                           /\ call[c].cacheEntry = Entry(n, store[n]) )
                             => ~call'[c].isCached
       /\ \A k \in Names :
              (RowExpired(store[k], now) /\ store'[k] # store[k]) =>
                  \/ \E c \in Calls : SetStep(c) /\ call[c].packageName = k
                  \/ \E c \in Calls : call'[c].op = "clearCache"
                                        /\ call[c].pc = "idle"
                  \/ store'[k].present /\ ~Parsable(store'[k].documentation)]_vars

\* isCached has answered false to a getDocumentation for a row that is
\* expired, still stored, and still returned by get.
C24_Witness ==
    \E c \in Calls :
        /\ call[c].pc = "afterIsCached" /\ call[c].op = "getDocumentation"
        /\ ~call[c].isCached
        /\ RowExpired(store[call[c].packageName], now)
        /\ Stored(store, call[c].packageName) = call[c].cacheEntry

\* C25: the GET of fetchFromNpmsIO goes to
\* {registryBaseUrl}/package/{urlEncodedPackageName}, where registryBaseUrl
\* is the registry URL of the service configuration.
C25_EndpointFollowsConfig ==
    http.pc # "none" =>
        http.url = [ base |-> GetNpmDocServiceConfig(instance).npmRegistry,
                     path |-> << "package",
                                 EncodeURIComponent(http.packageName) >> ]

\* C25, amended: the GET of fetchFromNpmsIO goes to
\* https://api.npms.io/v2/package/{urlEncodedPackageName}; the base is fixed
\* in the service, and the npmRegistry of the configuration (its default or
\* NPM_REGISTRY_URL) has no part in it.
C25_EndpointFixed ==
    http.pc # "none" =>
        /\ http.url.base = "https://api.npms.io/v2"
        /\ http.url.path = << "package", EncodeURIComponent(http.packageName) >>
        /\ http.url.base # GetNpmDocServiceConfig(instance).npmRegistry
        /\ GetNpmDocServiceConfig(instance).npmRegistry =
               IF env.NPM_REGISTRY_URL # "" THEN env.NPM_REGISTRY_URL
               ELSE "https://registry.npmjs.org"

\* A fetch for the scoped name has ended in a process started with
\* NPM_REGISTRY_URL set: the request went to api.npms.io with the name
\* escaped.
C25_Witness ==
    /\ http.pc = "ended"
    /\ http.packageName = "@s/p"
    /\ env.NPM_REGISTRY_URL = "https://registry.example.org"
    /\ GetNpmDocServiceConfig(instance).npmRegistry = env.NPM_REGISTRY_URL
    /\ http.url = [ base |-> "https://api.npms.io/v2",
                    path |-> << "package", "%40s%2Fp" >> ]

\* C26: the record the ConfigurationManager holds changes only in a call of
\* updateNpmDocServiceConfig (a step that touches neither the service nor
\* an object handed out); getNpmDocServiceConfig returns an object with the
\* properties of that record which is not that record, and assigning to it
\* leaves the holder as it was; a constructed NpmDocService keeps the cacheTtl
\* it read when it was constructed, whatever the holder holds later.
C26_ConfigurationIsolation ==
    [][/\ ( /\ instance.created
            /\ instance'.npmDocService # instance.npmDocService )
           => /\ service' = service /\ cacheTtl' = cacheTtl
              /\ ~copy.held => copy' = copy
              /\ copy.held => copy'.value = copy.value
       /\ (copy.held /\ copy'.held /\ copy'.value # copy.value) =>
              instance' = instance
       /\ (copy'.held /\ instance' # instance /\ ~instance.created) =>
              /\ ~copy'.shared
              /\ copy'.value = instance'.npmDocService
       /\ copy'.held => ~copy'.shared
       /\ service.state = "ready" =>
              /\ cacheTtl' = cacheTtl
              /\ service'.state = "ready"
       /\ (service.state = "absent" /\ service'.registered) =>
              cacheTtl' = instance'.npmDocService.cacheTtl]_vars

\* The service was constructed by the tool, the holder was updated
\* afterwards, and a caller changed the object it had been given: three
\* different values of cacheTtl.
C26_Witness ==
    /\ service.state = "ready" /\ service.registered
    /\ instance.created
    /\ copy.held
    /\ cacheTtl # instance.npmDocService.cacheTtl
    /\ copy.value.cacheTtl # instance.npmDocService.cacheTtl
    /\ copy.value.cacheTtl # cacheTtl

\* C27: with cache statements that return and a GET that is answered,
\* fails or times out, every getDocumentation that was started comes to its
\* end; it has no outcome before its end and exactly one at it, a
\* documentation record or an error of one of the kinds NotFoundError,
\* NetworkError and Error (the unexpected failure); a GET that got no
\* response (the timeout included) ends the request at once with NetworkError.
C27_EventuallyCompletes ==
    /\ \A c \in Calls : (call[c].pc # "idle") ~> (call[c].pc = "done")
    /\ [](\A c \in Calls :
             IF call[c].pc = "done"
             THEN \/ /\ call[c].result.kind = "doc"
                     /\ \E d \in FetchedFor(call[c].packageName) :
                            DeepEqual(call[c].result.doc, d)
                  \/ /\ call[c].result.kind = "error"
                     /\ call[c].result.error
                            \in {"NotFoundError", "NetworkError", "Error"}
             ELSE call[c].result = NoResult)
    /\ [][\A c \in Calls :
              ( /\ call[c].pc = "fetching"
                /\ http' # http
                /\ call'[c] # call[c] \/ http'.packageName = call[c].packageName
                /\ http'.response.kind = "noresponse" )
              => \E d \in Calls :
                     /\ call[d].pc = "fetching" /\ call'[d].pc = "done"
                     /\ call'[d].result = ErrorResult("NetworkError")]_vars

\* A request has ended with NetworkError after its GET got no response.
C27_Witness ==
    /\ http.pc = "ended"
    /\ http.response.kind = "noresponse"
    /\ \E c \in Calls :
           /\ call[c].pc = "done" /\ call[c].op = "getDocumentation"
           /\ call[c].fetches = 1
           /\ call[c].result = ErrorResult("NetworkError")

\* C28: whenever getDocumentation(name, false) returns a record taken from
\* the cache, the row its second get reads is unexpired at the moment of that
\* read, whatever time has passed and whatever other calls have written
\* since the comparison of isCached.
C28_HitUnexpired ==
    [][\A c \in Calls :
           (SecondGetStep(c) /\ call'[c].result.kind = "doc") =>
               now < store[call[c].packageName].fetched_at
                         + store[call[c].packageName].ttl * MsPerSec]_vars

\* C29: every call of ConfigurationManager.getInstance ends, by returning
\* the instance or by throwing what the constructor threw, and never spins
\* on the lock; the lock is free whenever a call begins and free again when
\* it ends, also when the constructor threw, so that the next call runs the
\* constructor again; the constructor runs to its end at most once, and
\* from then on the instance stays and is the one every call returns.
C29_ConfigurationSingleton ==
    [][/\ ~instanceLock /\ ~instanceLock'
       /\ holder'.last # "spins"
       /\ holder'.constructions <= 1
       /\ instance'.created <=> holder'.constructions = 1
       /\ instance.created =>
              /\ instance'.created
              /\ holder'.constructions = holder.constructions
       /\ holder' # holder =>
              /\ holder'.last \in {"instance", "threw"}
              /\ holder'.last = "instance" => instance'.created
              /\ holder'.last = "threw" =>
                     /\ ~instance.created /\ ~instance'.created
                     /\ holder'.threw
                     /\ holder'.constructions = 0]_vars

\* The constructor threw in one call of getInstance and ran to its end in a
\* later one, which returned the instance.
C29_Witness ==
    /\ holder.threw
    /\ holder.last = "instance"
    /\ holder.constructions = 1
    /\ instance.created
    /\ ~instanceLock

====
